---- MODULE Spec2Model ----
(***************************************************************************)
(* BaseComponent (todo-vanilla): a custom element that wraps one created   *)
(* DOM element and forwards class, id, attribute, content and style       *)
(* operations to it, optionally inside an open shadow root.                *)
(*                                                                         *)
(* Strings are sequences of one-character strings, so that the DOM's       *)
(* conversions (ASCII lower-casing of names, splitting a class attribute   *)
(* into tokens, serialising a token list) are computed and not assumed.    *)
(***************************************************************************)
EXTENDS Integers, Sequences, FiniteSets, TLC

VARIABLES phase, _element, tag, attrs, content, shadowRoot, shadowChildren,
          hostChildren, hostAttrs, warnings, nextId, last

vars == <<phase, _element, tag, attrs, content, shadowRoot, shadowChildren,
          hostChildren, hostAttrs, warnings, nextId, last>>

\* ------------------------------------------------------------------ bounds
\* Nodes other than the underlying element that one run may create.
MaxNodes == 2
\* console.warn calls that one run records.
MaxWarnings == 1

\* ----------------------------------------------------------------- strings
\* The value JavaScript calls null / an absent node field; no string equals it.
Null == <<"null">>

ID == <<"i", "d">>
CLASS == <<"c", "l", "a", "s", "s">>
STYLESHEET == <<"s", "t", "y", "l", "e", "s", "h", "e", "e", "t">>

ConstructionError == "Define a valid HTML element to create"
StylesWarning == "Shadow DOM is not enabled. Styles cannot be added."
StyleSheetWarning == "Shadow DOM is not enabled. Stylesheets cannot be added."

IsSpace(ch) == ch = " "

IsDigit(ch) == ch \in {"0", "1", "2", "3", "4", "5", "6", "7", "8", "9"}

\* ASCII lower-casing of one character (the upper-case letters the inputs use).
LowerChar(ch) ==
    CASE ch = "A" -> "a"
      [] ch = "B" -> "b"
      [] ch = "K" -> "k"
      [] OTHER -> ch

ToLower(s) == [i \in 1..Len(s) |-> LowerChar(s[i])]

HasSpace(s) == \E i \in 1..Len(s) : IsSpace(s[i])

Contains(seq, x) == \E i \in 1..Len(seq) : seq[i] = x

\* document.createElement accepts a name that is not empty, does not start
\* with a digit and holds no whitespace (on the characters used here the XML
\* Name rule and the later "valid element local name" rule agree).
ValidElementName(s) == s # <<>> /\ ~IsDigit(s[1]) /\ ~HasSpace(s)

\* Element.setAttribute accepts a name under the same conditions; the names
\* used here are the empty one, which every build rejects, and letters only.
ValidAttributeName(s) == s # <<>> /\ ~IsDigit(s[1]) /\ ~HasSpace(s)

\* ---------------------------------------------------------- DOMTokenList
AppendNew(seq, x) == IF Contains(seq, x) THEN seq ELSE Append(seq, x)

RECURSIVE SplitFrom(_, _, _, _)
\* Split s on ASCII whitespace from position i on; cur is the token being
\* read, acc the ordered set of the tokens read so far.
SplitFrom(s, i, cur, acc) ==
    IF i > Len(s)
    THEN IF cur = <<>> THEN acc ELSE AppendNew(acc, cur)
    ELSE IF IsSpace(s[i])
         THEN SplitFrom(s, i + 1, <<>>, IF cur = <<>> THEN acc ELSE AppendNew(acc, cur))
         ELSE SplitFrom(s, i + 1, Append(cur, s[i]), acc)

\* The ordered set parser of the DOM standard.
ParseOrderedSet(s) == SplitFrom(s, 1, <<>>, <<>>)

RECURSIVE SerializeOrderedSet(_)
\* The ordered set serializer: the tokens joined by one space.
SerializeOrderedSet(tokens) ==
    IF tokens = <<>> THEN <<>>
    ELSE IF Len(tokens) = 1 THEN tokens[1]
    ELSE tokens[1] \o <<" ">> \o SerializeOrderedSet(Tail(tokens))

RECURSIVE TokenError(_)
\* The validation every DOMTokenList method runs on its arguments, in order:
\* the empty token is a SyntaxError, a token with whitespace an
\* InvalidCharacterError.
TokenError(tokens) ==
    IF tokens = <<>> THEN "none"
    ELSE IF tokens[1] = <<>> THEN "SyntaxError"
    ELSE IF HasSpace(tokens[1]) THEN "InvalidCharacterError"
    ELSE TokenError(Tail(tokens))

RECURSIVE AddAll(_, _)
AddAll(set, tokens) ==
    IF tokens = <<>> THEN set ELSE AddAll(AppendNew(set, tokens[1]), Tail(tokens))

Without(seq, x) == SelectSeq(seq, LAMBDA y : y # x)

\* ------------------------------------------------------------- attributes
NoAttributes == [x \in {} |-> <<>>]

SetAttr(at, k, v) == [x \in DOMAIN at \cup {k} |-> IF x = k THEN v ELSE at[x]]

RemoveAttr(at, k) == [x \in DOMAIN at \ {k} |-> at[x]]

\* element.classList: the token set parsed from the class attribute.
ClassList(at) == IF CLASS \in DOMAIN at THEN ParseOrderedSet(at[CLASS]) ELSE <<>>

\* The update steps of a DOMTokenList: write the serialised token set back to
\* the class attribute, unless the attribute is missing and the set is empty.
UpdateSteps(at, tokens) ==
    IF CLASS \notin DOMAIN at /\ tokens = <<>>
    THEN at
    ELSE SetAttr(at, CLASS, SerializeOrderedSet(tokens))

\* ------------------------------------------------------------------ nodes
ElementId == 1

Node(id, kind, text, rel, href) ==
    [id |-> id, kind |-> kind, text |-> text, rel |-> rel, href |-> href]

\* The underlying element as it appears in a list of children.
ElementNode == Node(ElementId, "element", <<>>, Null, Null)

\* ----------------------------------------------------------------- inputs
ElementInputs == {<<>>, <<"B">>, <<"1">>, <<"a", " ">>}

\* The record of the latest call: the method, the kind and the values of its
\* arguments, the useShadowDom flag (constructor), the error it raised and,
\* for a class operation, the class list it found.
Call(op, kind, a, flag, threw) ==
    [op |-> op, kind |-> kind, a |-> a, flag |-> flag, threw |-> threw, before |-> <<>>]

ClassCall(op, kind, a, threw, before) ==
    [op |-> op, kind |-> kind, a |-> a, flag |-> FALSE, threw |-> threw, before |-> before]

\* ------------------------------------------------------------------- init
\* The class is registered as a custom element; no instance exists yet.
Init ==
    /\ phase = "new"
    /\ _element = 0
    /\ tag = <<>>
    /\ attrs = NoAttributes
    /\ content = <<>>
    /\ shadowRoot = "null"
    /\ shadowChildren = <<>>
    /\ hostChildren = <<>>
    /\ hostAttrs = NoAttributes
    /\ warnings = <<>>
    /\ nextId = ElementId + 1
    /\ last = Call("none", "none", <<>>, FALSE, "none")

\* ------------------------------------------------------------ constructor
\* !element: the argument is missing or the empty string.
NotGiven(kind, element) == kind = "undefined"

Falsy(kind, element) == kind = "undefined" \/ element = <<>>

\* document.createElement(element): the local name of the new element is the
\* name in ASCII lower case.
CreatedTagAsGiven(element) == element

CreatedTag(element) == ToLower(element)

\* The children of the component itself after construction.
HostChildrenAlways(useShadowDom) == <<ElementNode>>

HostChildrenAfter(useShadowDom) == IF useShadowDom THEN <<>> ELSE <<ElementNode>>

\* The shadow root after construction and its children.
ShadowRootAfter(useShadowDom) == IF useShadowDom THEN "open" ELSE "null"

ShadowChildrenAfter(useShadowDom) == IF useShadowDom THEN <<ElementNode>> ELSE <<>>

\* new BaseComponent(element, useShadowDom); kind is "undefined" when the
\* first argument is omitted and "string" otherwise.
Construct(kind, element, useShadowDom) ==
    /\ phase \in {"new", "failed"}
    /\ UNCHANGED <<attrs, content, hostAttrs, warnings, nextId>>
    /\ IF Falsy(kind, element)
       THEN /\ phase' = "failed"
            /\ last' = Call("constructor", kind, <<element>>, useShadowDom, ConstructionError)
            /\ UNCHANGED <<_element, tag, shadowRoot, shadowChildren, hostChildren>>
       ELSE IF ~ValidElementName(element)
       THEN /\ phase' = "failed"
            /\ last' = Call("constructor", kind, <<element>>, useShadowDom, "InvalidCharacterError")
            /\ UNCHANGED <<_element, tag, shadowRoot, shadowChildren, hostChildren>>
       ELSE /\ phase' = "ready"
            /\ _element' = ElementId
            /\ tag' = CreatedTag(element)
            /\ last' = Call("constructor", kind, <<element>>, useShadowDom, "none")
            /\ shadowRoot' = ShadowRootAfter(useShadowDom)
            /\ shadowChildren' = ShadowChildrenAfter(useShadowDom)
            /\ hostChildren' = HostChildrenAfter(useShadowDom)

\* ---------------------------------------------------------------- queries
\* render(): the created element.
renderClone == nextId

render == _element

\* getClasses(): the live class list of the element.
getClasses == ClassList(attrs)

\* hasClass(className): classList.contains, which never throws.
hasClass(className) == Contains(ClassList(attrs), className)

\* hasAttribute(attrName): the name is lower-cased before the lookup.
hasAttribute(attrName) == ToLower(attrName) \in DOMAIN attrs

\* getAttributeValue(attrName): the value, or null when there is none.
getAttributeValueOrEmpty(attrName) ==
    IF ToLower(attrName) \in DOMAIN attrs THEN attrs[ToLower(attrName)] ELSE <<>>

getAttributeValue(attrName) ==
    IF ToLower(attrName) \in DOMAIN attrs THEN attrs[ToLower(attrName)] ELSE Null

\* render().id: the id attribute reflected as a string.
ElementIdValue == IF ID \in DOMAIN attrs THEN attrs[ID] ELSE <<>>

\* ----------------------------------------------------------------- inputs
CssInputs == {<<"a">>}

HrefInputs == {<<"b">>}

\* Markup is given as the sequence of the tags of its top-level elements.
HtmlInputs == {<<>>, <<<<"p">>>>}

SPAN == <<"s", "p", "a", "n">>

ClassStrings == {<<>>, <<"a">>, <<"b">>, <<"a", " ", "b">>}

ClassNames == {<<>>, <<"a">>, <<"b">>}

ClassArrays == {<<>>, <<<<"a">>, <<"b">>>>, <<<<"b">>, <<>>>>}

IdInputs == {<<>>, <<"a">>}

AttrNames == {ID, CLASS, <<"K">>, <<>>}

AttrValues == {<<" ", "b", " ", "b">>}

CanCreate(n) == nextId + n - 1 <= ElementId + MaxNodes

RECURSIVE ParseFragment(_, _)
\* The nodes the HTML parser creates for markup, the first with id `id`.
ParseFragment(html, id) ==
    IF html = <<>> THEN <<>>
    ELSE <<Node(id, "parsed", html[1], Null, Null)>> \o ParseFragment(Tail(html), id + 1)

\* ------------------------------------------------------------- operations
\* console.warn of addStyles on a component without shadow root.
WarnStylesWrongText(w) == Append(w, StyleSheetWarning)

WarnStyles(w) == Append(w, StylesWarning)

\* console.warn of addStyleSheet on a component without shadow root.
WarnStyleSheetSilent(w) == w

WarnStyleSheet(w) == Append(w, StyleSheetWarning)

\* The style element of addStyles: its text content is the argument.
StyleElementNoText(id, styles) == Node(id, "style", <<>>, Null, Null)

StyleElement(id, styles) == Node(id, "style", styles, Null, Null)

\* The link element of addStyleSheet: rel and href are set as attributes.
LinkElement(id, href) == Node(id, "link", <<>>, STYLESHEET, href)

\* shadowRoot.appendChild(node).
NotAppended(children, node) == children

AppendedToShadow(children, node) == Append(children, node)

addStyles(styles) ==
    /\ phase = "ready"
    /\ UNCHANGED <<phase, _element, tag, attrs, content, shadowRoot, hostChildren, hostAttrs>>
    /\ last' = Call("addStyles", "string", <<styles>>, FALSE, "none")
    /\ IF shadowRoot # "null"
       THEN /\ CanCreate(1)
            /\ shadowChildren' = AppendedToShadow(shadowChildren, StyleElement(nextId, styles))
            /\ nextId' = nextId + 1
            /\ UNCHANGED warnings
       ELSE /\ Len(warnings) < MaxWarnings
            /\ warnings' = WarnStyles(warnings)
            /\ UNCHANGED <<shadowChildren, nextId>>

setInnerHTML(innerHTML) ==
    /\ phase = "ready"
    /\ CanCreate(Len(innerHTML))
    /\ UNCHANGED <<phase, _element, tag, attrs, shadowRoot, hostChildren, hostAttrs, warnings>>
    /\ last' = Call("setInnerHTML", "html", innerHTML, FALSE, "none")
    /\ nextId' = nextId + Len(innerHTML)
    /\ IF shadowRoot # "null"
       THEN /\ shadowChildren' = ParseFragment(innerHTML, nextId)
            /\ UNCHANGED content
       ELSE /\ content' = ParseFragment(innerHTML, nextId)
            /\ UNCHANGED shadowChildren

\* this._element.appendChild(nodeElement).
NotAppendedToElement(children, node) == children

AppendedToElement(children, node) == Append(children, node)

\* kind "node": a node the caller has just created with the tag name given;
\* kind "undefined": no node is passed and appendChild raises a TypeError.
setAppendChild(kind, name) ==
    /\ phase = "ready"
    /\ UNCHANGED <<phase, _element, tag, attrs, shadowRoot, shadowChildren, hostChildren, hostAttrs, warnings>>
    /\ IF kind = "node"
       THEN /\ CanCreate(1)
            /\ content' = AppendedToElement(content, Node(nextId, "child", name, Null, Null))
            /\ nextId' = nextId + 1
            /\ last' = Call("setAppendChild", kind, <<name>>, FALSE, "none")
       ELSE /\ last' = Call("setAppendChild", kind, <<name>>, FALSE, "TypeError")
            /\ UNCHANGED <<content, nextId>>

addStyleSheet(href) ==
    /\ phase = "ready"
    /\ UNCHANGED <<phase, _element, tag, attrs, content, shadowRoot, hostChildren, hostAttrs>>
    /\ last' = Call("addStyleSheet", "string", <<href>>, FALSE, "none")
    /\ IF shadowRoot # "null"
       THEN /\ CanCreate(1)
            /\ shadowChildren' = AppendedToShadow(shadowChildren, LinkElement(nextId, href))
            /\ nextId' = nextId + 1
            /\ UNCHANGED warnings
       ELSE /\ Len(warnings) < MaxWarnings
            /\ warnings' = WarnStyleSheet(warnings)
            /\ UNCHANGED <<shadowChildren, nextId>>

\* classList.add(...tokens): all tokens are validated before any is added.
ClassListAddFirst(at, tokens) ==
    IF TokenError(tokens) # "none" \/ tokens = <<>> THEN at
    ELSE UpdateSteps(at, AppendNew(ClassList(at), tokens[1]))

ClassListAdd(at, tokens) ==
    IF TokenError(tokens) # "none" THEN at
    ELSE UpdateSteps(at, AddAll(ClassList(at), tokens))

\* kind "string": one class name (tokens = <<className>>); kind "array": a
\* sequence of class names, spread into the call; kind "undefined": neither.
addClass(kind, tokens) ==
    /\ phase = "ready"
    /\ UNCHANGED <<phase, _element, tag, content, shadowRoot, shadowChildren, hostChildren, hostAttrs, warnings, nextId>>
    /\ IF kind \in {"string", "array"}
       THEN /\ attrs' = ClassListAdd(attrs, tokens)
            /\ last' = ClassCall("addClass", kind, tokens, TokenError(tokens), ClassList(attrs))
       ELSE /\ UNCHANGED attrs
            /\ last' = ClassCall("addClass", kind, tokens, "none", ClassList(attrs))

\* element.className = '': the class attribute is set to the empty string.
ClassNameUntouched(at) == at

ClassNameCleared(at) == SetAttr(at, CLASS, <<>>)

clearClasses ==
    /\ phase = "ready"
    /\ UNCHANGED <<phase, _element, tag, content, shadowRoot, shadowChildren, hostChildren, hostAttrs, warnings, nextId>>
    /\ attrs' = ClassNameCleared(attrs)
    /\ last' = ClassCall("clearClasses", "none", <<>>, "none", ClassList(attrs))

ClassListRemove(at, token) ==
    IF TokenError(<<token>>) # "none" THEN at
    ELSE UpdateSteps(at, Without(ClassList(at), token))

removeClass(className) ==
    /\ phase = "ready"
    /\ UNCHANGED <<phase, _element, tag, content, shadowRoot, shadowChildren, hostChildren, hostAttrs, warnings, nextId>>
    /\ attrs' = ClassListRemove(attrs, className)
    /\ last' = ClassCall("removeClass", "string", <<className>>, TokenError(<<className>>), ClassList(attrs))

\* Replace token by newToken in an ordered set: the first of the two that
\* occurs becomes newToken and every other occurrence of either goes.
ReplaceInSet(set, token, newToken) ==
    LET first == CHOOSE i \in 1..Len(set) :
                     /\ set[i] \in {token, newToken}
                     /\ \A j \in 1..(i - 1) : set[j] \notin {token, newToken}
        put == [i \in 1..Len(set) |-> IF i = first THEN newToken ELSE set[i]]
        keep(i) == i = first \/ put[i] \notin {token, newToken}
        idx == {i \in 1..Len(set) : keep(i)}
        RECURSIVE pick(_)
        pick(i) == IF i > Len(set) THEN <<>>
                   ELSE IF i \in idx THEN <<put[i]>> \o pick(i + 1) ELSE pick(i + 1)
    IN pick(1)

\* classList.replace(token, newToken).
ClassListReplaceAlways(at, token, newToken) ==
    IF TokenError(<<token, newToken>>) # "none" THEN at
    ELSE UpdateSteps(at, AppendNew(Without(ClassList(at), token), newToken))

ClassListReplace(at, token, newToken) ==
    IF TokenError(<<token, newToken>>) # "none" THEN at
    ELSE IF ~Contains(ClassList(at), token) THEN at
    ELSE UpdateSteps(at, ReplaceInSet(ClassList(at), token, newToken))

replaceClass(oldClassName, newClassName) ==
    /\ phase = "ready"
    /\ UNCHANGED <<phase, _element, tag, content, shadowRoot, shadowChildren, hostChildren, hostAttrs, warnings, nextId>>
    /\ attrs' = ClassListReplace(attrs, oldClassName, newClassName)
    /\ last' = ClassCall("replaceClass", "string", <<oldClassName, newClassName>>,
                         TokenError(<<oldClassName, newClassName>>), ClassList(attrs))

\* classList.toggle(token) without the force argument.
ClassListToggleOn(at, token) ==
    IF TokenError(<<token>>) # "none" THEN at
    ELSE UpdateSteps(at, AppendNew(ClassList(at), token))

ClassListToggle(at, token) ==
    IF TokenError(<<token>>) # "none" THEN at
    ELSE IF Contains(ClassList(at), token)
         THEN UpdateSteps(at, Without(ClassList(at), token))
         ELSE UpdateSteps(at, Append(ClassList(at), token))

toggleClass(className) ==
    /\ phase = "ready"
    /\ UNCHANGED <<phase, _element, tag, content, shadowRoot, shadowChildren, hostChildren, hostAttrs, warnings, nextId>>
    /\ attrs' = ClassListToggle(attrs, className)
    /\ last' = ClassCall("toggleClass", "string", <<className>>, TokenError(<<className>>), ClassList(attrs))

\* element.id = id: the id attribute is set to the string.
IdAssignedOnce(at, id) == IF ID \in DOMAIN at THEN at ELSE SetAttr(at, ID, id)

IdAssigned(at, id) == SetAttr(at, ID, id)

setId(id) ==
    /\ phase = "ready"
    /\ UNCHANGED <<phase, _element, tag, content, shadowRoot, shadowChildren, hostChildren, hostAttrs, warnings, nextId>>
    /\ attrs' = IdAssigned(attrs, id)
    /\ last' = Call("setId", "string", <<id>>, FALSE, "none")

\* element.removeAttribute('id').
IdEmptied(at) == SetAttr(at, ID, <<>>)

IdRemoved(at) == RemoveAttr(at, ID)

removeId ==
    /\ phase = "ready"
    /\ UNCHANGED <<phase, _element, tag, content, shadowRoot, shadowChildren, hostChildren, hostAttrs, warnings, nextId>>
    /\ attrs' = IdRemoved(attrs)
    /\ last' = Call("removeId", "none", <<>>, FALSE, "none")

\* element.setAttribute(name, value): an invalid name raises
\* InvalidCharacterError, a valid one is lower-cased.
AttributeSet(at, attrName, attrValue) ==
    IF ValidAttributeName(attrName) THEN SetAttr(at, ToLower(attrName), attrValue) ELSE at

\* The attributes of the component itself: the override forwards to the
\* element and does not call the inherited setAttribute.
HostAttributesAfterSet(hat, attrName, attrValue) == hat

setAttribute(attrName, attrValue) ==
    /\ phase = "ready"
    /\ UNCHANGED <<phase, _element, tag, content, shadowRoot, shadowChildren, hostChildren, warnings, nextId>>
    /\ attrs' = AttributeSet(attrs, attrName, attrValue)
    /\ hostAttrs' = HostAttributesAfterSet(hostAttrs, attrName, attrValue)
    /\ last' = Call("setAttribute", "string", <<attrName, attrValue>>, FALSE,
                    IF ValidAttributeName(attrName) THEN "none" ELSE "InvalidCharacterError")

\* element.removeAttribute(name): the name is lower-cased, a missing or
\* invalid name removes nothing.
AttributeRemoved(at, attrName) == RemoveAttr(at, ToLower(attrName))

removeAttribute(attrName) ==
    /\ phase = "ready"
    /\ UNCHANGED <<phase, _element, tag, content, shadowRoot, shadowChildren, hostChildren, hostAttrs, warnings, nextId>>
    /\ attrs' = AttributeRemoved(attrs, attrName)
    /\ last' = Call("removeAttribute", "string", <<attrName>>, FALSE, "none")

\* A call of render(): nothing is written.
renderCall ==
    /\ phase = "ready"
    /\ UNCHANGED <<phase, _element, tag, attrs, content, shadowRoot, shadowChildren, hostChildren, hostAttrs, warnings, nextId>>
    /\ last' = Call("render", "none", <<>>, FALSE, "none")

Next ==
    \/ \E e \in ElementInputs, f \in BOOLEAN : Construct("string", e, f)
    \/ \E f \in BOOLEAN : Construct("undefined", <<>>, f)
    \/ \E s \in CssInputs : addStyles(s)
    \/ \E h \in HtmlInputs : setInnerHTML(h)
    \/ setAppendChild("node", SPAN)
    \/ setAppendChild("undefined", <<>>)
    \/ \E h \in HrefInputs : addStyleSheet(h)
    \/ \E c \in ClassStrings : addClass("string", <<c>>)
    \/ \E x \in ClassArrays : addClass("array", x)
    \/ addClass("undefined", <<>>)
    \/ clearClasses
    \/ \E c \in ClassNames : removeClass(c)
    \/ \E o \in ClassNames, n \in ClassNames \ {<<>>} : replaceClass(o, n)
    \/ \E c \in ClassNames : toggleClass(c)
    \/ \E i \in IdInputs : setId(i)
    \/ removeId
    \/ \E k \in AttrNames, v \in AttrValues : setAttribute(k, v)
    \/ \E k \in AttrNames : removeAttribute(k)
    \/ renderCall

Spec == Init /\ [][Next]_vars

\* The runs that use only the constructor, the two style operations and the
\* id, class and attribute operations.
NextStyles ==
    \/ \E e \in ElementInputs, f \in BOOLEAN : Construct("string", e, f)
    \/ \E s \in CssInputs : addStyles(s)
    \/ \E h \in HrefInputs : addStyleSheet(h)
    \/ \E c \in ClassStrings : addClass("string", <<c>>)
    \/ \E x \in ClassArrays : addClass("array", x)
    \/ clearClasses
    \/ \E c \in ClassNames : removeClass(c)
    \/ \E o \in ClassNames, n \in ClassNames \ {<<>>} : replaceClass(o, n)
    \/ \E c \in ClassNames : toggleClass(c)
    \/ \E i \in IdInputs : setId(i)
    \/ removeId
    \/ \E k \in AttrNames, v \in AttrValues : setAttribute(k, v)
    \/ \E k \in AttrNames : removeAttribute(k)

SpecStyles == Init /\ [][NextStyles]_vars

\* ------------------------------------------------------------- properties
ValidClassNames == {c \in ClassStrings : TokenError(<<c>>) = "none"}

SetOf(seq) == {seq[i] : i \in 1..Len(seq)}

\* C1: constructing with an empty or missing element identifier fails with
\* the error 'Define a valid HTML element to create', with and without
\* useShadowDom, and then no underlying element exists and no shadow root is
\* attached.
C1_EmptyIdentifierFails ==
    (last.op = "constructor" /\ (last.kind = "undefined" \/ last.a = <<<<>>>>))
        => /\ last.threw = ConstructionError
           /\ phase = "failed"
           /\ render = 0
           /\ shadowRoot = "null"
           /\ shadowChildren = <<>>
           /\ hostChildren = <<>>

C1_Witness ==
    /\ last.op = "constructor"
    /\ last.kind = "string"
    /\ last.a = <<<<>>>>
    /\ last.flag
    /\ last.threw = ConstructionError

\* C2: after a successful construction with useShadowDom the component has an
\* open shadow root that holds the underlying element, which is not a direct
\* child of the component; without useShadowDom there is no shadow root and
\* the underlying element is a direct child of the component.
C2_Placement ==
    (last.op = "constructor" /\ last.threw = "none")
        => IF last.flag
           THEN /\ shadowRoot = "open"
                /\ Contains(shadowChildren, ElementNode)
                /\ ~Contains(hostChildren, ElementNode)
           ELSE /\ shadowRoot = "null"
                /\ shadowChildren = <<>>
                /\ Contains(hostChildren, ElementNode)

C2_Witness ==
    /\ last.op = "constructor"
    /\ last.threw = "none"
    /\ last.flag
    /\ shadowChildren = <<ElementNode>>

\* C3 as stated: for every non-empty tag identifier and both modes the
\* construction succeeds and render() is an element with that tag.
C3_EveryNonEmptyTagSucceeds ==
    (last.op = "constructor" /\ last.kind = "string" /\ last.a # <<<<>>>>)
        => /\ last.threw = "none"
           /\ phase = "ready"
           /\ render = ElementId
           /\ tag = ToLower(last.a[1])

\* C3 (amended): for every tag identifier that is a valid element name and
\* both modes the construction succeeds and render() is an element whose
\* local name is the identifier in ASCII lower case; a non-empty identifier
\* that is not a valid element name makes the construction fail with the
\* InvalidCharacterError of document.createElement.
C3_ValidTagSucceeds ==
    (last.op = "constructor" /\ last.kind = "string" /\ last.a # <<<<>>>>)
        => IF ValidElementName(last.a[1])
           THEN /\ last.threw = "none"
                /\ phase = "ready"
                /\ render = ElementId
                /\ tag = ToLower(last.a[1])
           ELSE /\ last.threw = "InvalidCharacterError"
                /\ phase = "failed"

C3_Witness ==
    /\ last.op = "constructor"
    /\ last.a = <<<<"B">>>>
    /\ last.flag
    /\ last.threw = "none"
    /\ tag = <<"b">>

\* C4: after addClass(x) every class that was present before the call is
\* still present, and once the call has returned hasClass(c) holds for every
\* class name c of x, x being one string or a sequence of strings.
C4_AddClassThenHasClass ==
    last.op = "addClass"
        => /\ \A c \in SetOf(last.before) : hasClass(c)
           /\ last.threw = "none" => \A c \in SetOf(last.a) : hasClass(c)

C4_Witness ==
    /\ last.op = "addClass"
    /\ last.kind = "array"
    /\ last.a = <<<<"a">>, <<"b">>>>
    /\ last.before = <<<<"b">>>>
    /\ hasClass(<<"a">>)
    /\ hasClass(<<"b">>)

\* C5: after clearClasses() no class name is reported by hasClass, whatever
\* the earlier class operations added, and getClasses() is empty.
C5_ClearClasses ==
    last.op = "clearClasses"
        => /\ getClasses = <<>>
           /\ \A c \in ClassStrings \cup SetOf(last.before) : ~hasClass(c)

C5_Witness ==
    /\ last.op = "clearClasses"
    /\ SetOf(last.before) = {<<"a">>, <<"b">>}
    /\ getClasses = <<>>

\* C6: toggleClass(c) flips the membership of the class name c and of no
\* other class, and from every reachable class set two toggleClass(c) in a
\* row give back the same set of classes.
C6_ToggleTwice ==
    /\ (last.op = "toggleClass" /\ last.threw = "none")
           => /\ hasClass(last.a[1]) = ~Contains(last.before, last.a[1])
              /\ SetOf(getClasses) \ {last.a[1]} = SetOf(last.before) \ {last.a[1]}
    /\ phase = "ready"
           => \A c \in ValidClassNames :
                  SetOf(ClassList(ClassListToggle(ClassListToggle(attrs, c), c)))
                      = SetOf(getClasses)

C6_Witness ==
    /\ last.op = "toggleClass"
    /\ last.a = <<<<"a">>>>
    /\ last.before = <<<<"a">>, <<"b">>>>
    /\ getClasses = <<<<"b">>>>
    /\ ClassList(ClassListToggle(attrs, <<"a">>)) = <<<<"b">>, <<"a">>>>

\* C7: after setId(x) the id of render() is x, and after removeId() it is the
\* empty string, in both modes and whatever the id was.
C7_SetIdRemoveId ==
    /\ last.op = "setId" => ElementIdValue = last.a[1]
    /\ last.op = "removeId" => ElementIdValue = <<>>

C7_Witness ==
    /\ last.op = "setId"
    /\ last.a = <<<<"a">>>>
    /\ ElementIdValue = <<"a">>
    /\ shadowRoot = "open"

\* C8: after setAttribute(k, v) getAttributeValue(k) is v and hasAttribute(k)
\* holds; after removeAttribute(k) hasAttribute(k) fails and
\* getAttributeValue(k) is null; an attribute the element does not carry, as
\* every attribute of a new element, yields null.
C8_AttributeRoundTrip ==
    /\ (last.op = "setAttribute" /\ last.threw = "none")
           => /\ getAttributeValue(last.a[1]) = last.a[2]
              /\ hasAttribute(last.a[1])
    /\ last.op = "removeAttribute"
           => /\ ~hasAttribute(last.a[1])
              /\ getAttributeValue(last.a[1]) = Null
    /\ (last.op = "constructor" /\ last.threw = "none")
           => \A k \in AttrNames : getAttributeValue(k) = Null
    /\ \A k \in AttrNames : ~hasAttribute(k) => getAttributeValue(k) = Null

C8_Witness ==
    /\ last.op = "removeAttribute"
    /\ last.a = <<<<"K">>>>
    /\ getAttributeValue(<<"K">>) = Null
    /\ hasAttribute(ID)

\* The document tree of the component: the underlying element with its tag,
\* attributes and content, the shadow root and the children of both hosts.
Dom == <<_element, tag, attrs, content, shadowRoot, shadowChildren, hostChildren, hostAttrs, nextId>>

\* C9: on a component without shadow root addStyles and addStyleSheet leave
\* the document tree as it is and log exactly one warning, 'Shadow DOM is not
\* enabled. Styles cannot be added.' and 'Shadow DOM is not enabled.
\* Stylesheets cannot be added.' respectively.
C9_NoShadowWarns ==
    [][/\ (last'.op = "addStyles" /\ shadowRoot = "null")
              => /\ UNCHANGED Dom
                 /\ warnings' = Append(warnings, StylesWarning)
                 /\ last'.threw = "none"
       /\ (last'.op = "addStyleSheet" /\ shadowRoot = "null")
              => /\ UNCHANGED Dom
                 /\ warnings' = Append(warnings, StyleSheetWarning)
                 /\ last'.threw = "none"]_vars

C9_Witness ==
    /\ last.op = "addStyles"
    /\ shadowRoot = "null"
    /\ warnings = <<StylesWarning>>
    /\ hostChildren = <<ElementNode>>
    /\ content # <<>>

NodeIds(children) == {children[i].id : i \in 1..Len(children)}

\* C10: on a component with shadow root addStyles(css) appends to the shadow
\* root one new style node whose text is css, and addStyleSheet(href) one new
\* link node with rel 'stylesheet' and the href given; neither logs a warning
\* nor changes the underlying element.
C10_ShadowAppends ==
    [][/\ (last'.op = "addStyles" /\ shadowRoot # "null")
              => /\ shadowChildren' = Append(shadowChildren, Node(nextId, "style", last'.a[1], Null, Null))
                 /\ nextId \notin NodeIds(shadowChildren) \cup NodeIds(content) \cup {ElementId}
                 /\ UNCHANGED <<warnings, _element, tag, attrs, content>>
                 /\ last'.threw = "none"
       /\ (last'.op = "addStyleSheet" /\ shadowRoot # "null")
              => /\ shadowChildren' = Append(shadowChildren, Node(nextId, "link", <<>>, STYLESHEET, last'.a[1]))
                 /\ nextId \notin NodeIds(shadowChildren) \cup NodeIds(content) \cup {ElementId}
                 /\ UNCHANGED <<warnings, _element, tag, attrs, content>>
                 /\ last'.threw = "none"]_vars

C10_Witness ==
    /\ last.op = "addStyleSheet"
    /\ shadowRoot = "open"
    /\ Len(shadowChildren) = 3
    /\ shadowChildren[1] = ElementNode
    /\ shadowChildren[2].kind = "style"
    /\ shadowChildren[2].text = <<"a">>
    /\ shadowChildren[3].kind = "link"
    /\ shadowChildren[3].rel = STYLESHEET
    /\ shadowChildren[3].href = <<"b">>
    /\ warnings = <<>>

IsPrefix(short, long) ==
    /\ Len(short) <= Len(long)
    /\ \A i \in 1..Len(short) : long[i] = short[i]

\* C11 as stated: with a shadow root, addStyles, addStyleSheet, setInnerHTML
\* and setAppendChild each change the children of the shadow root and leave
\* the content of the underlying element as it is.
C11_AllMutationsOnShadowRoot ==
    [][(phase = "ready" /\ shadowRoot = "open" /\ last'.threw = "none")
          => /\ last'.op \in {"addStyles", "addStyleSheet", "setAppendChild"}
                    => shadowChildren' # shadowChildren /\ content' = content
             /\ last'.op = "setInnerHTML"
                    => /\ shadowChildren' = ParseFragment(last'.a, nextId)
                       /\ content' = content]_vars

\* C11 (amended): with a shadow root, addStyles and addStyleSheet append to the
\* children of the shadow root and setInnerHTML replaces them, and none of
\* the three changes the content of the underlying element; setAppendChild
\* of a new node appends it to the content of the underlying element and
\* leaves the children of the shadow root as they are.
C11_ShadowOrElement ==
    [][(phase = "ready" /\ shadowRoot = "open" /\ last'.threw = "none")
          => /\ last'.op \in {"addStyles", "addStyleSheet"}
                    => /\ Len(shadowChildren') = Len(shadowChildren) + 1
                       /\ IsPrefix(shadowChildren, shadowChildren')
                       /\ content' = content
             /\ last'.op = "setInnerHTML"
                    => /\ shadowChildren' = ParseFragment(last'.a, nextId)
                       /\ content' = content
             /\ last'.op = "setAppendChild"
                    => /\ content' = Append(content, Node(nextId, "child", last'.a[1], Null, Null))
                       /\ shadowChildren' = shadowChildren]_vars

C11_Witness ==
    /\ last.op = "setAppendChild"
    /\ last.threw = "none"
    /\ shadowRoot = "open"
    /\ shadowChildren = <<ElementNode, StyleElement(2, <<"a">>)>>
    /\ content = <<Node(3, "child", SPAN, Null, Null)>>

\* C12 as stated: replaceClass(old, new) with old in the class set leaves old
\* absent, new present and every other class as it was; with old not in the
\* class set it leaves the class set unchanged.
C12_ReplaceClass ==
    (last.op = "replaceClass" /\ last.threw = "none")
        => IF Contains(last.before, last.a[1])
           THEN /\ ~hasClass(last.a[1])
                /\ hasClass(last.a[2])
                /\ SetOf(getClasses) \ {last.a[1], last.a[2]}
                       = SetOf(last.before) \ {last.a[1], last.a[2]}
           ELSE getClasses = last.before

\* C12 (amended): replaceClass(old, new) with old in the class set and new
\* different from old leaves old absent, new present and every other class
\* as it was; with old not in the class set, or new equal to old, it leaves
\* the class set unchanged.
C12_ReplaceClassDistinct ==
    (last.op = "replaceClass" /\ last.threw = "none")
        => IF Contains(last.before, last.a[1]) /\ last.a[1] # last.a[2]
           THEN /\ ~hasClass(last.a[1])
                /\ hasClass(last.a[2])
                /\ SetOf(getClasses) \ {last.a[1], last.a[2]}
                       = SetOf(last.before) \ {last.a[1], last.a[2]}
           ELSE getClasses = last.before

C12_Witness ==
    /\ last.op = "replaceClass"
    /\ last.a = <<<<"a">>, <<"b">>>>
    /\ last.before = <<<<"a">>>>
    /\ getClasses = <<<<"b">>>>

\* The arguments the DOM rejects: an empty or whitespace-bearing class token,
\* an empty attribute name, no node for appendChild.
RejectedArguments(call) ==
    \/ /\ call.op \in {"addClass", "removeClass", "replaceClass", "toggleClass"}
       /\ \E i \in 1..Len(call.a) : call.a[i] = <<>> \/ HasSpace(call.a[i])
    \/ call.op = "setAttribute" /\ call.a[1] = <<>>
    \/ call.op = "setAppendChild" /\ call.kind = "undefined"

\* C13 as stated: no call on a constructed wrapper raises an error, and a call
\* that leaves the state unchanged logs a warning (addClass with an argument
\* that is neither a string nor a sequence included).
C13_NoCallRaises ==
    [][phase = "ready"
          => /\ last'.threw = "none"
             /\ (last'.op = "addClass" /\ last'.kind = "undefined")
                    => warnings' # warnings]_vars

\* C13 (amended): a call on a constructed wrapper raises an error exactly when
\* the DOM rejects its arguments, and then changes nothing and logs nothing;
\* a warning is logged exactly by addStyles and addStyleSheet on a wrapper
\* without shadow root, one per call and with the document tree unchanged;
\* addClass with an argument that is neither a string nor a sequence changes
\* nothing and logs nothing.
C13_ErrorsAndWarnings ==
    [][phase = "ready"
          => /\ (last'.threw # "none") = RejectedArguments(last')
             /\ last'.threw \in {"none", "SyntaxError", "InvalidCharacterError", "TypeError"}
             /\ last'.threw # "none" => UNCHANGED <<Dom, warnings>>
             /\ (warnings' # warnings)
                    = (last'.op \in {"addStyles", "addStyleSheet"} /\ shadowRoot = "null")
             /\ warnings' # warnings
                    => /\ UNCHANGED Dom
                       /\ Len(warnings') = Len(warnings) + 1
                       /\ IsPrefix(warnings, warnings')
             /\ (last'.op = "addClass" /\ last'.kind = "undefined")
                    => UNCHANGED <<Dom, warnings>>]_vars

C13_Witness ==
    /\ last.op = "addClass"
    /\ last.kind = "array"
    /\ last.a = <<<<"b">>, <<>>>>
    /\ last.threw = "SyntaxError"
    /\ getClasses = <<<<"a">>>>
    /\ shadowRoot = "open"

\* The nodes created since the construction, by their ids.
CreatedIds == (ElementId + 1)..(nextId - 1)

\* C14: with a shadow root, after any run of addStyles and addStyleSheet mixed
\* with id, class and attribute operations, every node those calls created is
\* a style or link child of the shadow root and none is inside the underlying
\* element, while the id and the classes set through the wrapper are on the
\* underlying element and not on the component.
C14_StylesStayInShadowRoot ==
    (phase = "ready" /\ shadowRoot = "open")
        => /\ \A id \in CreatedIds :
                  \E i \in 1..Len(shadowChildren) :
                      /\ shadowChildren[i].id = id
                      /\ shadowChildren[i].kind \in {"style", "link"}
           /\ NodeIds(content) \cap CreatedIds = {}
           /\ Contains(shadowChildren, ElementNode)
           /\ last.op = "setId" => ElementIdValue = last.a[1]
           /\ (last.op = "addClass" /\ last.threw = "none")
                  => \A c \in SetOf(last.a) : hasClass(c)
           /\ hostAttrs = NoAttributes

C14_Witness ==
    /\ last.op = "addClass"
    /\ shadowRoot = "open"
    /\ shadowChildren = <<ElementNode, StyleElement(2, <<"a">>), LinkElement(3, <<"b">>)>>
    /\ ElementIdValue = <<"a">>
    /\ getClasses = <<<<"a">>, <<"b">>>>

\* C15: render() changes nothing, and in every state of a constructed wrapper
\* it returns the element the constructor created: no operation replaces it.
C15_RenderSameElement ==
    [][/\ phase' = "ready" => render' = ElementId
       /\ last'.op = "render"
              => UNCHANGED <<phase, _element, tag, attrs, content, shadowRoot,
                             shadowChildren, hostChildren, hostAttrs, warnings, nextId>>]_vars

C15_Witness ==
    /\ last.op = "render"
    /\ render = ElementId
    /\ shadowRoot = "open"
    /\ ~Contains(shadowChildren, ElementNode)
    /\ content # <<>>

\* C16: after any run of operations the underlying element is still where the
\* constructor placed it: in the shadow root of a wrapper with shadow root,
\* among the children of the component otherwise; setInnerHTML does not
\* detach it.
C16_ElementStaysAttached ==
    phase = "ready"
        => IF shadowRoot = "open"
           THEN Contains(shadowChildren, ElementNode)
           ELSE Contains(hostChildren, ElementNode)

\* C17: the id of the underlying element is its 'id' attribute, or the empty
\* string without one; setId(x) changes the attributes as setAttribute('id',
\* x) does and removeId() as removeAttribute('id') does; the attributes of
\* the component itself are never written.
C17_IdIsAttribute ==
    phase = "ready"
        => /\ ElementIdValue = (IF hasAttribute(ID) THEN getAttributeValue(ID) ELSE <<>>)
           /\ \A x \in IdInputs \cup AttrValues :
                  IdAssigned(attrs, x) = AttributeSet(attrs, ID, x)
           /\ IdRemoved(attrs) = AttributeRemoved(attrs, ID)
           /\ last.op = "removeId" => ~hasAttribute(ID)
           /\ (last.op = "setAttribute" /\ last.a[1] = ID) => ElementIdValue = last.a[2]
           /\ hostAttrs = NoAttributes

C17_Witness ==
    /\ last.op = "setAttribute"
    /\ last.a = <<ID, <<" ", "b", " ", "b">>>>
    /\ ElementIdValue = <<" ", "b", " ", "b">>
    /\ hostAttrs = NoAttributes
====
